---- MODULE Spec2Model ----
(***************************************************************************)
(* Model of the slot-arena doubly linked list (linked_list<E>) and of the  *)
(* chained hash table (hash_table<K, V>) of src/single-header-impl/graph.h *)
(*                                                                         *)
(* A linked_list<E> is a record                                            *)
(*   [elements, capacity, used, free, is_linearized]                       *)
(* whose elements field is the backing array, a function from the slot     *)
(* indices 0 .. capacity + 1 to element<E> records                         *)
(*   [next_index, prev_index, is_free, element].                           *)
(* Every function of the source is an operator of the same name that maps  *)
(* the structure before the call to the structure after it.  Two extra     *)
(* parameters stand for things the C++ signature leaves implicit:          *)
(*   E         the value-initialised element (E) {} of the template type,  *)
(*   alloc_ok  whether the allocator call made by the function succeeds.   *)
(* A function returning stack_trace* yields a record with an ok field      *)
(* (SUCCESS() or a failure trace) next to the structure it leaves behind.  *)
(* The field used is a size_t; it is held as a mathematical integer, a     *)
(* negative n standing for the wrapped value 2^64 + n.                     *)
(* linked_list_insert_after and hash_table_insert are written as a chain   *)
(* of operators, one per stretch of the function's body, each taking what  *)
(* the stretch before it computed as a parameter.                          *)
(***************************************************************************)
EXTENDS Integers, Sequences, FiniteSets, TLC

\* ------------------------------------------------------------------ bounds
\* The stand-alone list is created with a capacity in 0 .. MaxInitCapacity.
MaxInitCapacity == 2
\* No operation is started that would take the list's capacity beyond this.
MaxCapacity == 4
\* No insertion is started on a stand-alone list holding this many elements.
MaxUsed == 3
\* The hash table is created with a bucket_capacity in 1 .. MaxInitBuckets
MaxInitBuckets == 2
\* and a value_list_size in 1 .. MaxInitValues.
MaxInitValues == 1
\* No insertion is started that would take buckets_capacity beyond this,
MaxBuckets == 8
\* or the capacity of the table's list of pairs beyond this,
MaxValuesCapacity == 8
\* No more than this many insert and delete calls are made on the hash table.
MaxCalls == 5

\* The element values callers push.  The list never inspects an element, so
\* two values are enough to tell elements apart.
Values == { 1, 2 }

\* (int) {} : the value-initialised element of linked_list<int>
IntZero == 0

\* ------------------------------------------------------------- linked list
linked_list_end_index == 0

linked_list_head_index(list) == list.elements[linked_list_end_index].next_index

linked_list_tail_index(list) == list.elements[linked_list_end_index].prev_index

\* Variant of linked_list_insert_after_in_place that marks the new slot free
\* whatever ring it joins.
insert_after_in_place_marks_free(list, value, prev_index, place_for_new_element) ==
    LET next_index == list.elements[prev_index].next_index
        e1 == [list.elements EXCEPT ![prev_index].next_index = place_for_new_element]
        e2 == [e1 EXCEPT ![next_index].prev_index = place_for_new_element]
        e3 == [e2 EXCEPT ![place_for_new_element] =
                  [next_index |-> next_index,
                   prev_index |-> prev_index,
                   is_free    |-> TRUE,
                   element    |-> value]]
    IN  [list EXCEPT !.elements = e3]

\* Links slot place_for_new_element between prev_index and its successor.
\* next_index is read first; the is_free flag is copied from the predecessor.
linked_list_insert_after_in_place(list, value, prev_index, place_for_new_element) ==
    LET next_index == list.elements[prev_index].next_index
        e1 == [list.elements EXCEPT ![prev_index].next_index = place_for_new_element]
        e2 == [e1 EXCEPT ![next_index].prev_index = place_for_new_element]
        e3 == [e2 EXCEPT ![place_for_new_element] =
                  [next_index |-> next_index,
                   prev_index |-> prev_index,
                   is_free    |-> e2[prev_index].is_free,
                   element    |-> value]]
    IN  [list EXCEPT !.elements = e3]

\* The loop of linked_list_create: for (i = capacity + 1; i > list->free; --i)
RECURSIVE create_expand_free(_, _, _)
create_expand_free(list, i, E) ==
    IF i > list.free
    THEN create_expand_free(
             linked_list_insert_after_in_place(list, E, list.free, i), i - 1, E)
    ELSE list

\* calloc'ed array of capacity + 2 zeroed slots; used stays what the caller's
\* zero-initialised struct holds (every caller in the repository passes {}).
linked_list_create(capacity, E) ==
    LET zeroed == [i \in 0 .. capacity + 1 |->
                      [next_index |-> 0, prev_index |-> 0,
                       is_free |-> FALSE, element |-> E]]
        l0 == [elements |-> zeroed, capacity |-> capacity, used |-> 0,
               free |-> 0, is_linearized |-> TRUE]
        l1 == [l0 EXCEPT !.elements[linked_list_head_index(l0)].is_free = FALSE]
        l2 == [l1 EXCEPT !.free = 1]
        l3 == [l2 EXCEPT !.elements[l2.free] =
                  [next_index |-> l2.free, prev_index |-> l2.free,
                   is_free |-> TRUE, element |-> E]]
    IN  create_expand_free(l3, capacity + 1, E)

check_index(list, index) ==
    IF index > list.capacity + 1 THEN FALSE
    ELSE IF index < 0 THEN FALSE
    ELSE TRUE

add_free_element(list, element_index, E) ==
    linked_list_insert_after_in_place(list, E, list.free, element_index)

\* The loop of linked_list_resize: for (i = capacity + 2; i <= new_capacity + 1; ++i)
RECURSIVE resize_add_free(_, _, _, _)
resize_add_free(list, i, new_capacity, E) ==
    IF i <= new_capacity + 1
    THEN resize_add_free(add_free_element(list, i, E), i + 1, new_capacity, E)
    ELSE list

\* Variant of linked_list_resize whose loop starts one slot early, at
\* capacity + 1.
resize_readds_last_slot(list, new_capacity, E, alloc_ok) ==
    IF ~alloc_ok
    THEN [ok |-> FALSE, list |-> list]
    ELSE LET new_space == [i \in 0 .. new_capacity + 1 |->
                              IF i \in DOMAIN list.elements
                              THEN list.elements[i]
                              ELSE [next_index |-> 0, prev_index |-> 0,
                                    is_free |-> FALSE, element |-> E]]
             l1 == [list EXCEPT !.elements = new_space]
             l2 == resize_add_free(l1, list.capacity + 1, new_capacity, E)
         IN  [ok |-> TRUE, list |-> [l2 EXCEPT !.capacity = new_capacity]]

\* realloc keeps the old slots; a new slot is written whole by add_free_element
\* before anything reads it, so its content after realloc is immaterial.  A
\* failed realloc leaves the old block and the list untouched.
linked_list_resize(list, new_capacity, E, alloc_ok) ==
    IF ~alloc_ok
    THEN [ok |-> FALSE, list |-> list]
    ELSE LET new_space == [i \in 0 .. new_capacity + 1 |->
                              IF i \in DOMAIN list.elements
                              THEN list.elements[i]
                              ELSE [next_index |-> 0, prev_index |-> 0,
                                    is_free |-> FALSE, element |-> E]]
             l1 == [list EXCEPT !.elements = new_space]
             l2 == resize_add_free(l1, list.capacity + 2, new_capacity, E)
         IN  [ok |-> TRUE, list |-> [l2 EXCEPT !.capacity = new_capacity]]

free_elements_left(list) ==
    list.free # list.elements[list.free].next_index

is_free_element(list, element_index) ==
    list.elements[element_index].is_free

\* Variant of linked_list_unlink that relinks the successor only.
unlink_keeps_forward_link(list, actual_index) ==
    IF ~check_index(list, actual_index)
    THEN [ok |-> FALSE, list |-> list]
    ELSE LET next_index == list.elements[actual_index].next_index
             e2 == [list.elements EXCEPT
                       ![next_index].prev_index = list.elements[actual_index].prev_index]
         IN  [ok |-> TRUE, list |-> [list EXCEPT !.elements = e2]]

linked_list_unlink(list, actual_index) ==
    IF ~check_index(list, actual_index)
    THEN [ok |-> FALSE, list |-> list]
    ELSE LET prev_index == list.elements[actual_index].prev_index
             next_index == list.elements[actual_index].next_index
             e1 == [list.elements EXCEPT
                       ![prev_index].next_index = list.elements[actual_index].next_index]
             e2 == [e1 EXCEPT ![next_index].prev_index = e1[actual_index].prev_index]
         IN  [ok |-> TRUE, list |-> [list EXCEPT !.elements = e2]]

\* Variant of get_free_element_on_place that leaves `free` where it was.
get_free_element_keeps_free(list, place_index) ==
    IF ~is_free_element(list, place_index)
    THEN [ok |-> FALSE, list |-> list]
    ELSE IF list.elements[place_index].next_index = place_index
    THEN [ok |-> FALSE, list |-> list]
    ELSE linked_list_unlink(list, place_index)

get_free_element_on_place(list, place_index) ==
    IF ~is_free_element(list, place_index)
    THEN [ok |-> FALSE, list |-> list]
    ELSE LET next == list.elements[place_index].next_index
         IN  IF next = place_index
             THEN [ok |-> FALSE, list |-> list]
             ELSE LET u == linked_list_unlink(list, place_index)
                  IN  IF ~u.ok
                      THEN [ok |-> FALSE, list |-> u.list]
                      ELSE [ok |-> TRUE, list |-> [u.list EXCEPT !.free = next]]

get_free_element(list) ==
    LET r == get_free_element_on_place(list, list.free)
    IN  [ok |-> r.ok, list |-> r.list, element_index |-> list.free]

\* const double GROW = 2.0 of linked_list_insert_after
LIST_GROW == 2

\* Lines 409-420: the slot taken is linked after prev_index and counted.  g is
\* what taking the free slot gave; a failure there returns before anything
\* else is written.
insert_after_link(g, value, prev_index, on_place) ==
    LET place_for_new_element == IF on_place THEN prev_index + 1 ELSE g.element_index
    IN  IF ~g.ok
        THEN [ok |-> FALSE, list |-> g.list, actual_index |-> -1]
        ELSE [ok |-> TRUE,
              list |-> [linked_list_insert_after_in_place(
                            IF on_place
                            THEN g.list
                            ELSE [g.list EXCEPT !.is_linearized = FALSE],
                            value, prev_index, place_for_new_element)
                        EXCEPT !.used = @ + 1],
              actual_index |-> place_for_new_element]

\* Variant of lines 398-408 that clears is_linearized before it asks for the
\* slot `free` names.
insert_after_place_clears_first(list, value, prev_index) ==
    IF prev_index <= list.capacity /\ is_free_element(list, prev_index + 1)
    THEN insert_after_link(get_free_element_on_place(list, prev_index + 1),
                           value, prev_index, TRUE)
    ELSE insert_after_link(get_free_element([list EXCEPT !.is_linearized = FALSE]),
                           value, prev_index, FALSE)

\* Lines 398-408: the slot right after prev_index if it is free, else the slot
\* `free` names.
insert_after_place(list, value, prev_index) ==
    IF prev_index <= list.capacity /\ is_free_element(list, prev_index + 1)
    THEN insert_after_link(get_free_element_on_place(list, prev_index + 1),
                           value, prev_index, TRUE)
    ELSE insert_after_link(get_free_element(list), value, prev_index, FALSE)

\* Variant of linked_list_insert_after that grows the list before it looks at
\* prev_index.
insert_after_grows_before_check(list, value, prev_index, E, alloc_ok) ==
    \* grown: the list after the resize of an exhausted free ring
    LET grown == IF ~free_elements_left(list)
                 THEN linked_list_resize(list, list.capacity * LIST_GROW, E, alloc_ok).list
                 ELSE list
    IN  IF ~check_index(list, prev_index)
        THEN [ok |-> FALSE, list |-> grown, actual_index |-> -1]
        ELSE insert_after_place(grown, value, prev_index)

\* The result of linked_list_resize is not looked at (line 396).
linked_list_insert_after(list, value, prev_index, E, alloc_ok) ==
    IF ~check_index(list, prev_index)
    THEN [ok |-> FALSE, list |-> list, actual_index |-> -1]
    ELSE insert_after_place(
             IF ~free_elements_left(list)
             THEN linked_list_resize(list, list.capacity * LIST_GROW, E, alloc_ok).list
             ELSE list,
             value, prev_index)

linked_list_push_front(list, element, E, alloc_ok) ==
    linked_list_insert_after(list, element, linked_list_end_index, E, alloc_ok)

linked_list_push_back(list, element, E, alloc_ok) ==
    linked_list_insert_after(list, element, linked_list_tail_index(list), E, alloc_ok)

\* Variant of linked_list_delete that leaves used as it was.
delete_keeps_used(list, actual_index, E) ==
    IF ~check_index(list, actual_index)
    THEN [ok |-> FALSE, list |-> list]
    ELSE LET current == list.elements[actual_index]
             head_ind == linked_list_head_index(list)
             l1 == IF current.next_index # head_ind /\ current.prev_index # head_ind
                   THEN [list EXCEPT !.is_linearized = FALSE]
                   ELSE list
             u == linked_list_unlink(l1, actual_index)
             l2 == add_free_element(u.list, actual_index, E)
         IN  IF ~u.ok
             THEN [ok |-> FALSE, list |-> u.list]
             ELSE [ok |-> TRUE, list |-> l2]

linked_list_delete(list, actual_index, E) ==
    IF ~check_index(list, actual_index)
    THEN [ok |-> FALSE, list |-> list]
    ELSE LET current == list.elements[actual_index]
             head_ind == linked_list_head_index(list)
             l1 == IF current.next_index # head_ind /\ current.prev_index # head_ind
                   THEN [list EXCEPT !.is_linearized = FALSE]
                   ELSE list
             u == linked_list_unlink(l1, actual_index)
             l2 == add_free_element(u.list, actual_index, E)
         IN  IF ~u.ok
             THEN [ok |-> FALSE, list |-> u.list]
             ELSE [ok |-> TRUE, list |-> [l2 EXCEPT !.used = l2.used - 1]]

\* LINKED_LIST_TRAVERSE: the slots visited from the head until the end slot is
\* met again.  The walk is cut after capacity + 2 steps, more than any ring
\* through the end slot can hold.
\* Both pops pass the head's slot to linked_list_delete.
linked_list_pop_back(list, E) ==
    linked_list_delete(list, linked_list_head_index(list), E)

linked_list_pop_front(list, E) ==
    linked_list_delete(list, linked_list_head_index(list), E)

RECURSIVE traverse_from(_, _, _)
traverse_from(list, current, fuel) ==
    IF current = linked_list_end_index \/ fuel = 0
    THEN << >>
    ELSE << current >> \o
         traverse_from(list, list.elements[current].next_index, fuel - 1)

LINKED_LIST_TRAVERSE(list) ==
    traverse_from(list, linked_list_head_index(list), list.capacity + 2)

\* The swap gone wrong: the neighbours are rewired, the two slots keep their
\* contents.
swap_rewires_only(list, fst_index, snd_index) ==
    IF fst_index = snd_index
    THEN [ok |-> TRUE, list |-> list]
    ELSE IF ~check_index(list, fst_index) \/ ~check_index(list, snd_index)
    THEN [ok |-> FALSE, list |-> list]
    ELSE LET fst_prev == list.elements[fst_index].prev_index
             fst_next == list.elements[fst_index].next_index
             snd_prev == list.elements[snd_index].prev_index
             snd_next == list.elements[snd_index].next_index
             e1 == [list.elements EXCEPT ![fst_next].prev_index = snd_index]
             e2 == [e1 EXCEPT ![fst_prev].next_index = snd_index]
             e3 == [e2 EXCEPT ![snd_next].prev_index = fst_index]
             e4 == [e3 EXCEPT ![snd_prev].next_index = fst_index]
         IN  [ok |-> TRUE, list |-> [list EXCEPT !.elements = e4]]

\* swap(E* first, E* second) exchanges the two whole slots, links included,
\* after the four neighbour links have been redirected.
linked_list_swap(list, fst_index, snd_index) ==
    IF fst_index = snd_index
    THEN [ok |-> TRUE, list |-> list]
    ELSE IF ~check_index(list, fst_index) \/ ~check_index(list, snd_index)
    THEN [ok |-> FALSE, list |-> list]
    ELSE LET fst_prev == list.elements[fst_index].prev_index
             fst_next == list.elements[fst_index].next_index
             snd_prev == list.elements[snd_index].prev_index
             snd_next == list.elements[snd_index].next_index
             e1 == [list.elements EXCEPT ![fst_next].prev_index = snd_index]
             e2 == [e1 EXCEPT ![fst_prev].next_index = snd_index]
             e3 == [e2 EXCEPT ![snd_next].prev_index = fst_index]
             e4 == [e3 EXCEPT ![snd_prev].next_index = fst_index]
             e5 == [e4 EXCEPT ![fst_index] = e4[snd_index],
                              ![snd_index] = e4[fst_index]]
         IN  [ok |-> TRUE, list |-> [list EXCEPT !.elements = e5]]

\* The lookup by logical position (0-based).  With is_linearized set the slot
\* is computed from the head's slot; otherwise the traversal is walked.  A
\* walk that ends before logical_index leaves the function without a return
\* statement: returns is FALSE then and nothing is known about the result.
linked_list_get_logical_index(list, logical_index) ==
    IF list.is_linearized
    THEN [ok |-> TRUE, returns |-> TRUE,
          element_index |-> linked_list_head_index(list) + logical_index]
    ELSE \* the slots the loop visits, in order
         LET visited == LINKED_LIST_TRAVERSE(list)
         IN  IF logical_index + 1 \in DOMAIN visited
             THEN [ok |-> TRUE, returns |-> TRUE,
                   element_index |-> visited[logical_index + 1]]
             ELSE [ok |-> FALSE, returns |-> FALSE,
                   element_index |-> linked_list_end_index]

\* The values linked_list_get_logical may store in *value: the element of the
\* slot found, or anything when that slot lies outside the backing array.
linked_list_get_logical(list, logical_index, E) ==
    \* found: what linked_list_get_logical_index has answered
    LET found == linked_list_get_logical_index(list, logical_index)
    IN  IF ~found.returns
        THEN [ok |-> FALSE, returns |-> FALSE,
              element_index |-> found.element_index, values |-> { }]
        ELSE [ok |-> TRUE, returns |-> TRUE,
              element_index |-> found.element_index,
              values |-> IF found.element_index \in DOMAIN list.elements
                         THEN { list.elements[found.element_index].element }
                         ELSE Values \cup { E }]

\* ------------------------------------------------- observations on a list
\* linked_list_linearize: the element met k-th by the walk is swapped into
\* slot k, and the walk goes on from slot k.  linearize_from is the loop at
\* its test, linearize_swapped the rest of one turn, s being what
\* linked_list_swap gave.  The loop never writes is_linearized.  A walk that
\* has made capacity + 2 turns is on a ring that does not hold the end slot
\* and never ends: returns is FALSE.
RECURSIVE linearize_from(_, _, _, _)
linearize_swapped(s, logical_index, fuel) ==
    IF ~s.ok
    THEN [ok |-> FALSE, list |-> s.list, returns |-> TRUE]
    ELSE linearize_from(s.list, s.list.elements[logical_index].next_index,
                        logical_index + 1, fuel - 1)

linearize_from(list, current, logical_index, fuel) ==
    IF current = linked_list_end_index
    THEN [ok |-> TRUE, list |-> list, returns |-> TRUE]
    ELSE IF fuel = 0
    THEN [ok |-> FALSE, list |-> list, returns |-> FALSE]
    ELSE linearize_swapped(linked_list_swap(list, current, logical_index),
                           logical_index, fuel)

\* Variant of linked_list_linearize that counts the logical positions from 2.
linearize_counts_from_two(list) ==
    linearize_from(list, linked_list_head_index(list), 2, list.capacity + 2)

linked_list_linearize(list) ==
    linearize_from(list, linked_list_head_index(list), 1, list.capacity + 2)

Range(s) == { s[i] : i \in 1 .. Len(s) }

\* The slot indices met by one forward traversal, as a set.
LiveSlots(list) == Range(LINKED_LIST_TRAVERSE(list))

\* The values met by one forward traversal, in order.
TraversalValues(list) ==
    LET t == LINKED_LIST_TRAVERSE(list)
    IN  [i \in 1 .. Len(t) |-> list.elements[t[i]].element]

\* The (slot, value) pairs met by one forward traversal, in order.
TraversalEntries(list) ==
    LET t == LINKED_LIST_TRAVERSE(list)
    IN  [i \in 1 .. Len(t) |-> [slot |-> t[i], value |-> list.elements[t[i]].element]]

\* The slots met by following next_index from list.free until list.free is met
\* again (cut after capacity + 2 steps).
RECURSIVE free_ring_from(_, _, _)
free_ring_from(list, current, fuel) ==
    IF fuel = 0
    THEN { }
    ELSE { current } \cup
         ( IF list.elements[current].next_index = list.free
           THEN { }
           ELSE free_ring_from(list, list.elements[current].next_index, fuel - 1) )

FreeRingSlots(list) == free_ring_from(list, list.free, list.capacity + 2)

\* The forward traversal comes back to the end slot.
TraversalClosed(list) ==
    LET t == LINKED_LIST_TRAVERSE(list)
    IN  IF Len(t) = 0
        THEN linked_list_head_index(list) = linked_list_end_index
        ELSE list.elements[t[Len(t)]].next_index = linked_list_end_index

\* Every slot of ring has its successor in ring, and that successor's
\* prev_index leads back to it.
NextPrevCycle(list, ring) ==
    \A s \in ring :
        /\ list.elements[s].next_index \in ring
        /\ list.elements[list.elements[s].next_index].prev_index = s

\* The two rings of the backing array: the end slot with the elements of the
\* list, flagged not free, and the ring through list.free, flagged free; each
\* slot is on exactly one of them.
RingPartition(list) ==
    \E live \in { { linked_list_end_index } \cup LiveSlots(list) },
       unused \in { FreeRingSlots(list) } :
        /\ TraversalClosed(list)
        /\ NextPrevCycle(list, live)
        /\ { s \in DOMAIN list.elements : ~list.elements[s].is_free } = live
        /\ list.elements[list.free].is_free
        /\ NextPrevCycle(list, unused)
        /\ { s \in DOMAIN list.elements : list.elements[s].is_free } = unused
        /\ live \cap unused = { }
        /\ live \cup unused = DOMAIN list.elements

\* ------------------------------------------------------- abstract sequence
\* The list a caller has in mind: entries [slot, value] in logical order.
\* A call naming a slot the caller was never given leaves the abstract sequence
\* as it is.
AbsHas(s, slot) == \E k \in 1 .. Len(s) : s[k].slot = slot

AbsPosition(s, slot) == CHOOSE k \in 1 .. Len(s) : s[k].slot = slot

AbsInsertAfter(s, prev_slot, entry) ==
    IF prev_slot = 0
    THEN << entry >> \o s
    ELSE IF ~AbsHas(s, prev_slot)
    THEN s
    ELSE LET k == AbsPosition(s, prev_slot)
         IN  SubSeq(s, 1, k) \o << entry >> \o SubSeq(s, k + 1, Len(s))

AbsDelete(s, slot) ==
    IF ~AbsHas(s, slot)
    THEN s
    ELSE LET k == AbsPosition(s, slot)
         IN  SubSeq(s, 1, k - 1) \o SubSeq(s, k + 1, Len(s))

\* swap(a, b) moves the element of slot a to slot b and back; its place in the
\* sequence stays.
AbsSwap(s, a, b) ==
    [k \in 1 .. Len(s) |->
        IF s[k].slot = a THEN [s[k] EXCEPT !.slot = b]
        ELSE IF s[k].slot = b THEN [s[k] EXCEPT !.slot = a]
        ELSE s[k]]

\* linearize() gives the k-th element slot k.
AbsLinearize(s) == [k \in 1 .. Len(s) |-> [s[k] EXCEPT !.slot = k]]

\* -------------------------------------------------------------- hash table
\* A hash_table<K, V> is a record [key_hash_function, hash_table, values,
\* buckets_used, buckets_capacity]: hash_table is the bucket array, a function
\* from 0 .. buckets_capacity - 1 to hash_table_bucket records
\* [value_index, size]; values is the linked_list of hash_table_pair records
\* [key, value]; key_hash_function is a function from keys to hashes.  Keys are
\* compared by hash_table_simple_key_equality (==).  The allocator calls made
\* by the hash table's functions succeed.  A function that can end in THROW
\* (abort) yields a record with an aborted field.

\* (hash_table_pair<int, int>) {} : the value-initialised pair
PairZero == [key |-> 0, value |-> 0]

hash_table_pair_create(key, value) == [key |-> key, value |-> value]

\* key_hash & (buckets_capacity - 1) on the binary digits
RECURSIVE BitAnd(_, _)
BitAnd(a, b) ==
    IF a = 0 \/ b = 0
    THEN 0
    ELSE (a % 2) * (b % 2) + 2 * BitAnd(a \div 2, b \div 2)

\* (size_t) pow(2, (int) ceil(log2(bucket_capacity))) for bucket_capacity >= 1:
\* the least power of two that is not below it
RECURSIVE pow2_ceil_log2(_, _)
pow2_ceil_log2(bucket_capacity, power) ==
    IF power >= bucket_capacity
    THEN power
    ELSE pow2_ceil_log2(bucket_capacity, 2 * power)

hash_table_create(key_hash_function, bucket_capacity, value_list_size) ==
    LET rounded == pow2_ceil_log2(bucket_capacity, 1)
    IN  [key_hash_function |-> key_hash_function,
         hash_table |-> [b \in 0 .. rounded - 1 |-> [value_index |-> 0, size |-> 0]],
         values |-> linked_list_create(value_list_size, PairZero),
         buckets_used |-> 0,
         buckets_capacity |-> rounded]

hash_table_get_position(table, key) ==
    BitAnd(table.key_hash_function[key], table.buckets_capacity - 1)

\* The loop of __hash_table_lookup_index: size steps along next_index.
RECURSIVE lookup_walk(_, _, _, _, _)
lookup_walk(table, key, current, index, size) ==
    IF index < size
    THEN IF table.values.elements[current].element.key = key
         THEN current
         ELSE lookup_walk(table, key, table.values.elements[current].next_index,
                          index + 1, size)
    ELSE linked_list_end_index

\* Yields the slot of the pair with this key, or linked_list_end_index, and
\* the position of the key's bucket.
hash_table_lookup_index(table, key) ==
    LET position == hash_table_get_position(table, key)
        bucket == table.hash_table[position]
    IN  [key_bucket |-> position,
         index |-> IF bucket.size # 0
                   THEN lookup_walk(table, key, bucket.value_index, 0, bucket.size)
                   ELSE linked_list_end_index]

\* NULL is [found |-> FALSE]; otherwise the value the returned pointer is at.
hash_table_lookup(table, key) ==
    LET index == hash_table_lookup_index(table, key).index
    IN  IF index = linked_list_end_index
        THEN [found |-> FALSE, value |-> 0]
        ELSE [found |-> TRUE, value |-> table.values.elements[index].element.value]

hash_table_contains(table, key) ==
    hash_table_lookup_index(table, key).index # linked_list_end_index

hash_table_delete(table, key) ==
    LET l == hash_table_lookup_index(table, key)
        d == linked_list_delete(table.values, l.index, PairZero)
        t1 == [table EXCEPT !.values = d.list]
        t2 == [t1 EXCEPT !.hash_table[l.key_bucket].size = @ - 1]
    IN  IF l.index = linked_list_end_index
        THEN [ret |-> FALSE, table |-> table, aborted |-> FALSE]
        ELSE IF ~d.ok
        THEN [ret |-> FALSE, table |-> t1, aborted |-> TRUE]
        ELSE [ret |-> TRUE, table |-> t2, aborted |-> FALSE]

\* const double GROW = 2.0 of hash_table_insert
TABLE_GROW == 2

\* (double) buckets_used / (double) buckets_capacity >= MAX_LOAD_FACTOR, with
\* MAX_LOAD_FACTOR = 0.5 = 1 / MAX_LOAD_DIVISOR
MAX_LOAD_DIVISOR == 2

\* The threshold test gone wrong: a rehash only once more than half of the
\* buckets are in use.
load_factor_exceeded(table) ==
    table.buckets_used * MAX_LOAD_DIVISOR > table.buckets_capacity

load_factor_reached(table) ==
    table.buckets_used * MAX_LOAD_DIVISOR >= table.buckets_capacity

RECURSIVE hash_table_insert(_, _, _)
RECURSIVE rehash_traverse(_, _, _, _)

\* HASH_TABLE_TRAVERSE of hash_table_rehash: every pair of the old table's
\* list, in traversal order, is inserted into the new table.  new is what the
\* insertion before gave; its ret is not looked at.
rehash_traverse(table, slots, k, new) ==
    IF k > Len(slots) \/ new.aborted
    THEN new
    ELSE rehash_traverse(table, slots, k + 1,
             hash_table_insert(new.table,
                               table.values.elements[slots[k]].element.key,
                               table.values.elements[slots[k]].element.value))

\* Variant of hash_table_rehash whose loop starts at the second pair.
rehash_skips_head(table, new_bucket_capacity, new_values_capacity) ==
    rehash_traverse(table, LINKED_LIST_TRAVERSE(table.values), 2,
        [ret |-> TRUE,
         table |-> hash_table_create(table.key_hash_function,
                                     new_bucket_capacity, new_values_capacity),
         aborted |-> FALSE])

\* Yields the table that replaces the old one (field table).
hash_table_rehash(table, new_bucket_capacity, new_values_capacity) ==
    rehash_traverse(table, LINKED_LIST_TRAVERSE(table.values), 1,
        [ret |-> TRUE,
         table |-> hash_table_create(table.key_hash_function,
                                     new_bucket_capacity, new_values_capacity),
         aborted |-> FALSE])

\* Lines 942-947: the load factor test made once the pair is in its bucket.
insert_check_load(table) ==
    IF load_factor_reached(table)
    THEN [hash_table_rehash(table, table.buckets_capacity * TABLE_GROW,
                            table.values.capacity * TABLE_GROW)
          EXCEPT !.ret = TRUE]
    ELSE [ret |-> TRUE, table |-> table, aborted |-> FALSE]

\* Lines 928-937 after the call of the list: r is what linked_list_insert_after
\* (in_bucket) or linked_list_push_back gave; push_back writes the new slot to
\* bucket->value_index.  table has buckets_used counted already.
insert_in_bucket(table, key_bucket, in_bucket, r) ==
    IF ~r.ok
    THEN [ret |-> FALSE, table |-> [table EXCEPT !.values = r.list],
          aborted |-> TRUE]
    ELSE insert_check_load(
             [table EXCEPT
                 !.values = r.list,
                 !.hash_table[key_bucket] =
                     [value_index |-> IF in_bucket THEN @.value_index
                                      ELSE r.actual_index,
                      size |-> @.size + 1]])

\* Lines 924-935: l is what __hash_table_lookup_index gave for the key.
insert_looked_up(table, key, value, l) ==
    IF l.index # linked_list_end_index
    THEN [ret |-> FALSE, table |-> table, aborted |-> FALSE]
    ELSE IF table.hash_table[l.key_bucket].size > 0
    THEN insert_in_bucket(table, l.key_bucket, TRUE,
             linked_list_insert_after(table.values,
                                      hash_table_pair_create(key, value),
                                      table.hash_table[l.key_bucket].value_index,
                                      PairZero, TRUE))
    ELSE insert_in_bucket([table EXCEPT !.buckets_used = @ + 1],
             l.key_bucket, FALSE,
             linked_list_push_back(table.values,
                                   hash_table_pair_create(key, value),
                                   PairZero, TRUE))

hash_table_insert(table, key, value) ==
    insert_looked_up(table, key, value, hash_table_lookup_index(table, key))

\* linked_list<E> {}  with which hash_table_create initialises table->values;
\* it stays like this when the calloc of linked_list_create fails.
NullList ==
    [elements |-> << >>, capacity |-> 0, used |-> 0, free |-> 0,
     is_linearized |-> FALSE]

\* hash_table_create whose linked_list_create fails: the failure is returned
\* and *table is left with hash_table = NULL (no bucket) and the empty list.
hash_table_create_failed(key_hash_function, bucket_capacity) ==
    [ok |-> FALSE,
     table |-> [key_hash_function |-> key_hash_function,
                hash_table |-> << >>,
                values |-> NullList,
                buckets_used |-> 0,
                buckets_capacity |-> pow2_ceil_log2(bucket_capacity, 1)]]

\* hash_table_rehash when that happens: the result of hash_table_create is
\* not looked at, and the loop calls hash_table_insert on new_table, which
\* reads a bucket through the null pointer new_table.hash_table.  Either the
\* process is killed there (aborted), or the reads go through and the
\* function ends by replacing *table with new_table.
hash_table_rehash_failed(table, new_bucket_capacity) ==
    { [ret |-> TRUE, table |-> table, aborted |-> TRUE],
      [ret |-> TRUE,
       table |-> hash_table_create_failed(table.key_hash_function,
                                          new_bucket_capacity).table,
       aborted |-> FALSE] }

\* hash_table_insert with the allocator failing in the rehash it triggers;
\* r is what the call gives when no allocation fails.
hash_table_insert_failing(table, r) ==
    IF r.ret /\ r.table.buckets_capacity # table.buckets_capacity
    THEN hash_table_rehash_failed(table, table.buckets_capacity * TABLE_GROW)
    ELSE { r }

\* The slots a walk of a bucket's chain visits: size slots, from value_index
\* on along next_index, as the loop of __hash_table_lookup_index does.
RECURSIVE chain_from(_, _, _)
chain_from(table, current, size) ==
    IF size <= 0
    THEN << >>
    ELSE << current >> \o
         chain_from(table, table.values.elements[current].next_index, size - 1)

bucket_chain(table, position) ==
    chain_from(table, table.hash_table[position].value_index,
               table.hash_table[position].size)

\* The keys of the pairs in the slots of a chain, in the chain's order.
ChainKeys(table, chain) ==
    [i \in 1 .. Len(chain) |-> table.values.elements[chain[i]].element.key]

\* ------------------------------------------------------------------- state
VARIABLES
    list,   \* the stand-alone linked_list<int>
    alist,  \* the abstract sequence the same calls build
    last,   \* the last call on the list: its name, arguments and result, and
            \* the capacity the list had when the call was made
    table,  \* the hash_table<int, int>
    amap,   \* the abstract map the same calls build: key -> value, NoValue
            \* for a key that is not in the map
    hlast   \* the last call on the hash table: its name, arguments and
            \* result, the buckets_capacity the table had before it, and the
            \* number of calls made so far

lvars == << list, alist, last >>
hvars == << table, amap, hlast >>
vars == << list, alist, last, table, amap, hlast >>

\* The keys callers use.  The table only hashes and compares keys; key 0 is
\* the key a value-initialised pair holds.
Keys == { 0, 1, 2 }

\* The values callers store; the table never inspects a value.
TableValues == { 1, 2 }

NoValue == 0

\* The caller's hash function is one of: every key collides; the key itself
\* (keys share a bucket while buckets_capacity is small and part when it
\* grows); twice the key (the same, one doubling later).
HashFunctions ==
    { [k \in Keys |-> 0], [k \in Keys |-> k], [k \in Keys |-> 2 * k] }

NoCall ==
    [op |-> "create", index |-> 0, other |-> 0, value |-> 0, ok |-> TRUE,
     actual_index |-> 0, capacity_before |-> 0]

NoTableCall ==
    [op |-> "create", key |-> 0, value |-> 0, ret |-> TRUE, aborted |-> FALSE,
     capacity_before |-> 0, calls |-> 0]

\* The list specifications leave the hash table alone, and the other way
\* round: the structure that is not exercised stays as created.
InitList ==
    \E capacity \in 0 .. MaxInitCapacity :
        /\ list = linked_list_create(capacity, IntZero)
        /\ alist = << >>
        /\ last = NoCall

InitTable ==
    \E key_hash_function \in HashFunctions,
       bucket_capacity \in 1 .. MaxInitBuckets,
       value_list_size \in 1 .. MaxInitValues :
        /\ table = hash_table_create(key_hash_function, bucket_capacity,
                                     value_list_size)
        /\ amap = [k \in Keys |-> NoValue]
        /\ hlast = NoTableCall

IdleList ==
    /\ list = linked_list_create(0, IntZero)
    /\ alist = << >>
    /\ last = NoCall

IdleTable ==
    /\ table = hash_table_create([k \in Keys |-> 0], 1, 1)
    /\ amap = [k \in Keys |-> NoValue]
    /\ hlast = NoTableCall

Init == InitList /\ IdleTable

\* The allocator is called by an insertion only when no free element is left;
\* only then can its outcome matter.
AllocOutcomes(l) == IF free_elements_left(l) THEN { TRUE } ELSE BOOLEAN

\* A prev_index a caller may pass: the end slot or a slot holding an element.
Anchors(l) == { linked_list_end_index } \cup LiveSlots(l)

Record(op, index, other, value, r, actual_index) ==
    [op |-> op, index |-> index, other |-> other, value |-> value, ok |-> r.ok,
     actual_index |-> actual_index, capacity_before |-> list.capacity]

InsertAfter ==
    /\ list.used < MaxUsed
    /\ \E prev_index \in Anchors(list), value \in Values, alloc_ok \in AllocOutcomes(list) :
           \E r \in { linked_list_insert_after(list, value, prev_index, IntZero, alloc_ok) } :
               /\ r.list.capacity <= MaxCapacity
               /\ list' = r.list
               /\ alist' = IF r.ok
                           THEN AbsInsertAfter(alist, prev_index,
                                    [slot |-> r.actual_index, value |-> value])
                           ELSE alist
               /\ last' = Record("insert_after", prev_index, 0, value, r, r.actual_index)
               /\ UNCHANGED hvars

PushFront ==
    /\ list.used < MaxUsed
    /\ \E value \in Values, alloc_ok \in AllocOutcomes(list) :
           \E r \in { linked_list_push_front(list, value, IntZero, alloc_ok) } :
               /\ r.list.capacity <= MaxCapacity
               /\ list' = r.list
               /\ alist' = IF r.ok
                           THEN << [slot |-> r.actual_index, value |-> value] >> \o alist
                           ELSE alist
               /\ last' = Record("push_front", 0, 0, value, r, r.actual_index)
               /\ UNCHANGED hvars

PushBack ==
    /\ list.used < MaxUsed
    /\ \E value \in Values, alloc_ok \in AllocOutcomes(list) :
           \E r \in { linked_list_push_back(list, value, IntZero, alloc_ok) } :
               /\ r.list.capacity <= MaxCapacity
               /\ list' = r.list
               /\ alist' = IF r.ok
                           THEN Append(alist, [slot |-> r.actual_index, value |-> value])
                           ELSE alist
               /\ last' = Record("push_back", 0, 0, value, r, r.actual_index)
               /\ UNCHANGED hvars

Delete ==
    \E actual_index \in LiveSlots(list) :
        \E r \in { linked_list_delete(list, actual_index, IntZero) } :
            /\ list' = r.list
            /\ alist' = IF r.ok THEN AbsDelete(alist, actual_index) ELSE alist
            /\ last' = Record("delete", actual_index, 0, 0, r, 0)
            /\ UNCHANGED hvars

Resize ==
    \E new_capacity \in list.capacity .. MaxCapacity, alloc_ok \in BOOLEAN :
        \E r \in { linked_list_resize(list, new_capacity, IntZero, alloc_ok) } :
            /\ list' = r.list
            /\ alist' = alist
            /\ last' = Record("resize", new_capacity, 0, 0, r, 0)
            /\ UNCHANGED hvars

Next == InsertAfter \/ PushFront \/ PushBack \/ Delete \/ Resize

Spec == Init /\ [][Next]_vars

\* swap called on the slots of two elements of the list (or twice the same).
Swap ==
    \E fst_index \in LiveSlots(list), snd_index \in LiveSlots(list) :
        \E r \in { linked_list_swap(list, fst_index, snd_index) } :
            /\ list' = r.list
            /\ alist' = IF r.ok THEN AbsSwap(alist, fst_index, snd_index) ELSE alist
            /\ last' = Record("swap", fst_index, snd_index, 0, r, 0)
            /\ UNCHANGED hvars

\* push_front and push_back are insert_after at the end slot and at the tail.
NextSwap == InsertAfter \/ Delete \/ Swap

SpecSwap == Init /\ [][NextSwap]_vars

\* linearize called on the list; a call that never returns is no step.
Linearize ==
    \E r \in { linked_list_linearize(list) } :
        /\ r.returns
        /\ list' = r.list
        /\ alist' = IF r.ok THEN AbsLinearize(alist) ELSE alist
        /\ last' = Record("linearize", 0, 0, 0, r, 0)
        /\ UNCHANGED hvars

\* Inserts and deletes in any order, then one linearize: the list linearize is
\* called on is one that inserts and deletes alone have built.
NextLinearize ==
    \/ last.op # "linearize" /\ InsertAfter
    \/ last.op # "linearize" /\ Delete
    \/ last.op # "linearize" /\ Linearize

SpecLinearize == Init /\ [][NextLinearize]_vars

\* The lookup by logical position, for the positions 0 .. used - 1.
GetLogical ==
    \E logical_index \in 0 .. list.used - 1 :
        \E r \in { linked_list_get_logical(list, logical_index, IntZero) } :
            /\ r.returns
            /\ \E value \in r.values :
                   last' = Record("get_logical", logical_index, 0, value, r, r.element_index)
            /\ UNCHANGED << list, alist >>
            /\ UNCHANGED hvars

NextLogical == InsertAfter \/ Delete \/ GetLogical

SpecLogical == Init /\ [][NextLogical]_vars

PopFront ==
    \E head \in { linked_list_head_index(list) }, r \in { linked_list_pop_front(list, IntZero) } :
        /\ list' = r.list
        /\ alist' = IF r.ok THEN AbsDelete(alist, head) ELSE alist
        /\ last' = Record("pop_front", head, 0, 0, r, 0)
        /\ UNCHANGED hvars

PopBack ==
    \E head \in { linked_list_head_index(list) }, r \in { linked_list_pop_back(list, IntZero) } :
        /\ list' = r.list
        /\ alist' = IF r.ok THEN AbsDelete(alist, head) ELSE alist
        /\ last' = Record("pop_back", head, 0, 0, r, 0)
        /\ UNCHANGED hvars

\* Insertions and pops of a list that has an element to pop.
NextPop ==
    \/ InsertAfter
    \/ list.used > 0 /\ PopFront
    \/ list.used > 0 /\ PopBack

SpecPop == Init /\ [][NextPop]_vars

\* The calls that pass the end slot 0 as the index of an element: delete(0),
\* the pops of an empty list (whose head index is 0), swap(0, b), swap(a, 0).
DeleteEnd ==
    \E r \in { linked_list_delete(list, linked_list_end_index, IntZero) } :
        /\ list' = r.list
        /\ last' = Record("delete", linked_list_end_index, 0, 0, r, 0)
        /\ UNCHANGED alist
        /\ UNCHANGED hvars

SwapEnd ==
    \E other \in Anchors(list) :
        \E pair \in { << linked_list_end_index, other >>, << other, linked_list_end_index >> } :
            \E r \in { linked_list_swap(list, pair[1], pair[2]) } :
                /\ list' = r.list
                /\ last' = Record("swap", pair[1], pair[2], 0, r, 0)
                /\ UNCHANGED alist
                /\ UNCHANGED hvars

EndIndexPassed ==
    \/ last.op \in { "delete", "pop_front", "pop_back" } /\ last.index = linked_list_end_index
    \/ last.op = "swap"

\* Insertions and deletions, then one call that passes the end slot.
NextEnd ==
    \/ ~EndIndexPassed /\ InsertAfter
    \/ ~EndIndexPassed /\ Delete
    \/ ~EndIndexPassed /\ DeleteEnd
    \/ ~EndIndexPassed /\ list.used = 0 /\ PopFront
    \/ ~EndIndexPassed /\ list.used = 0 /\ PopBack
    \/ ~EndIndexPassed /\ SwapEnd

SpecEnd == Init /\ [][NextEnd]_vars

\* Index arguments outside 0 .. capacity + 1, on both sides.
Outside(l) == { -2, -1, l.capacity + 2, l.capacity + 3 }

InsertAfterOutside ==
    \E prev_index \in Outside(list), value \in Values, alloc_ok \in AllocOutcomes(list) :
        \E r \in { linked_list_insert_after(list, value, prev_index, IntZero, alloc_ok) } :
            /\ r.list.capacity <= MaxCapacity
            /\ list' = r.list
            /\ last' = Record("insert_after", prev_index, 0, value, r, r.actual_index)
            /\ UNCHANGED alist
            /\ UNCHANGED hvars

DeleteOutside ==
    \E actual_index \in Outside(list) :
        \E r \in { linked_list_delete(list, actual_index, IntZero) } :
            /\ list' = r.list
            /\ last' = Record("delete", actual_index, 0, 0, r, 0)
            /\ UNCHANGED alist
            /\ UNCHANGED hvars

\* The call made last had an index argument outside 0 .. capacity + 1 of the
\* list it was made on.
OutsidePassed ==
    /\ last.op \in { "insert_after", "delete" }
    /\ (last.index < 0 \/ last.index > last.capacity_before + 1)

\* Insertions and deletions, then one call with an index out of range.
NextOutside ==
    \/ ~OutsidePassed /\ InsertAfter
    \/ ~OutsidePassed /\ Delete
    \/ ~OutsidePassed /\ InsertAfterOutside
    \/ ~OutsidePassed /\ DeleteOutside

SpecOutside == Init /\ [][NextOutside]_vars

\* swap with at least one index out of range; the other one is any index, in
\* range or not, the same one included.
SwapOutside ==
    \E out \in Outside(list), other \in Outside(list) \cup Anchors(list) :
        \E pair \in { << out, other >>, << other, out >> } :
            \E r \in { linked_list_swap(list, pair[1], pair[2]) } :
                /\ list' = r.list
                /\ last' = Record("swap", pair[1], pair[2], 0, r, 0)
                /\ UNCHANGED alist
                /\ UNCHANGED hvars

\* Insertions and deletions, then one swap with an index out of range.
NextSwapOutside ==
    \/ last.op # "swap" /\ InsertAfter
    \/ last.op # "swap" /\ Delete
    \/ last.op # "swap" /\ SwapOutside

SpecSwapOutside == Init /\ [][NextSwapOutside]_vars

\* Every operation of the list, with index arguments 0 or a live element.  A
\* state whose rings are broken is reached and then left alone: the live
\* elements the index arguments are drawn from are those of the live ring.
NextRing ==
    \/ RingPartition(list) /\ InsertAfter
    \/ RingPartition(list) /\ PushFront
    \/ RingPartition(list) /\ PushBack
    \/ RingPartition(list) /\ Delete
    \/ RingPartition(list) /\ Resize
    \/ RingPartition(list) /\ Swap
    \/ RingPartition(list) /\ Linearize

SpecRing == Init /\ [][NextRing]_vars

\* linked_list_delete called with the index of a slot that is free.
DeleteFree ==
    \E actual_index \in { slot \in DOMAIN list.elements : list.elements[slot].is_free } :
        \E r \in { linked_list_delete(list, actual_index, IntZero) } :
            /\ list' = r.list
            /\ last' = Record("delete_free", actual_index, 0, 0, r, 0)
            /\ UNCHANGED alist
            /\ UNCHANGED hvars

\* Insertions and deletions of live elements, then one delete of a free slot.
NextFree ==
    \/ last.op # "delete_free" /\ InsertAfter
    \/ last.op # "delete_free" /\ Delete
    \/ last.op # "delete_free" /\ DeleteFree

SpecFree == Init /\ [][NextFree]_vars

\* ------------------------------------------------------ hash table actions
TableRecord(op, key, value, r) ==
    [op |-> op, key |-> key, value |-> value, ret |-> r.ret,
     aborted |-> r.aborted, capacity_before |-> table.buckets_capacity,
     calls |-> hlast.calls + 1]

HashInsert ==
    /\ ~hlast.aborted
    /\ hlast.calls < MaxCalls
    /\ \E key \in Keys, value \in TableValues :
        \E r \in { hash_table_insert(table, key, value) } :
            /\ r.table.buckets_capacity <= MaxBuckets
            /\ r.table.values.capacity <= MaxValuesCapacity
            /\ table' = r.table
            /\ amap' = IF amap[key] = NoValue
                       THEN [amap EXCEPT ![key] = value]
                       ELSE amap
            /\ hlast' = TableRecord("insert", key, value, r)
            /\ UNCHANGED lvars

HashDelete ==
    /\ ~hlast.aborted
    /\ hlast.calls < MaxCalls
    /\ \E key \in Keys :
        \E r \in { hash_table_delete(table, key) } :
            /\ table' = r.table
            /\ amap' = [amap EXCEPT ![key] = NoValue]
            /\ hlast' = TableRecord("delete", key, 0, r)
            /\ UNCHANGED lvars

NextHash == HashInsert \/ HashDelete

InitHash == IdleList /\ InitTable

SpecHash == InitHash /\ [][NextHash]_vars

\* ------------------------------------------------------------------ claims
InsertOps == { "insert_after", "push_front", "push_back" }

AbsSlots(s) == { s[i].slot : i \in 1 .. Len(s) }

\* s without its entry for slot
WithoutSlot(s, slot) == SelectSeq(s, LAMBDA e : e.slot # slot)

\* C1: after every insert_after / push_front / push_back / delete call (made
\* with the end slot or a live slot as index argument), used equals the number
\* of slots one forward traversal visits before it is back at the end slot.
C1_UsedEqualsTraversal ==
    /\ TraversalClosed(list)
    /\ list.used = Len(LINKED_LIST_TRAVERSE(list))

C1_Witness ==
    /\ last.op = "delete" /\ last.ok
    /\ list.used = 2
    /\ ~list.is_linearized

\* C2: the forward traversal yields exactly the abstract sequence built by the
\* same calls: insert_after(p, v) puts v right after the element of slot p (at
\* the front for p = 0), push_back appends, delete(i) removes the element of
\* slot i only; this does not depend on is_linearized.
C2_RefinesSequence ==
    TraversalEntries(list) = alist

C2_Witness ==
    /\ last.op = "insert_after" /\ last.ok /\ last.index # 0
    /\ ~list.is_linearized
    /\ Len(alist) = 3
    /\ alist[2].slot = last.actual_index

\* C8: an index handed out by a successful insertion is not 0 and is not an
\* index handed out before and not deleted since: the indices handed out and
\* not yet deleted never hold 0 and never hold an index twice.
C8_FreshIndex ==
    \A i, j \in 1 .. Len(alist) :
        /\ alist[i].slot # linked_list_end_index
        /\ (i # j => alist[i].slot # alist[j].slot)

\* Slot 1 is the first index any list hands out; here it is handed out again,
\* as the new tail, after its delete.
C8_Witness ==
    /\ last.op = "push_back" /\ last.ok
    /\ last.actual_index = 1
    /\ Len(alist) = 3

\* C9: growth keeps the live list intact.  A successful resize(new_capacity),
\* new_capacity >= capacity, leaves every live element at its slot with its
\* value and in its place of the traversal, and puts exactly the slots
\* capacity + 2 .. new_capacity + 1 into the free ring; an insertion that
\* doubles the capacity does the same and gives the new element an index that
\* was not live before.
C9_ResizeStep ==
    (last'.op = "resize" /\ last'.ok) =>
        /\ list'.capacity = last'.index
        /\ TraversalEntries(list') = TraversalEntries(list)
        /\ FreeRingSlots(list') =
               FreeRingSlots(list) \cup (list.capacity + 2 .. list'.capacity + 1)
        /\ \A s \in FreeRingSlots(list') : list'.elements[s].is_free

C9_InsertGrowStep ==
    (last'.op \in InsertOps /\ last'.ok /\ list'.capacity # list.capacity) =>
        /\ list'.capacity = list.capacity * LIST_GROW
        /\ last'.actual_index \notin LiveSlots(list)
        /\ last'.actual_index # linked_list_end_index
        /\ WithoutSlot(TraversalEntries(list'), last'.actual_index) =
               TraversalEntries(list)
        /\ FreeRingSlots(list') =
               ( FreeRingSlots(list) \cup (list.capacity + 2 .. list'.capacity + 1) )
                   \ { last'.actual_index }

C9_GrowthKeepsList ==
    [][C9_ResizeStep /\ C9_InsertGrowStep]_vars

C9_Witness ==
    /\ last.op = "push_back" /\ last.ok
    /\ last.capacity_before = 2 /\ list.capacity = 4
    /\ list.used = 3

C9_WitnessResize ==
    /\ last.op = "resize" /\ last.ok
    /\ last.capacity_before < list.capacity
    /\ list.used = 2 /\ ~list.is_linearized

\* C10: for the slot indices a and b of two elements of the list, neighbours
\* or not, in either order, swap(a, b) leaves the traversal's sequence of
\* values as it was and exchanges the contents of the two slots: what was
\* stored at a is stored at b and the other way round, and every other slot
\* keeps its value; swap(a, a) changes nothing.  before and after are the
\* slots the traversal visits before and after the call.
C10_SwapStep ==
    (last'.op = "swap") =>
        \E a \in { last'.index }, b \in { last'.other },
           before \in { LINKED_LIST_TRAVERSE(list) },
           after \in { LINKED_LIST_TRAVERSE(list') } :
            /\ last'.ok
            /\ Len(after) = Len(before)
            /\ \A k \in 1 .. Len(before) :
                   /\ list'.elements[after[k]].element =
                          list.elements[before[k]].element
                   /\ after[k] = IF before[k] = a THEN b
                                 ELSE IF before[k] = b THEN a
                                 ELSE before[k]
            /\ list'.elements[a].element = list.elements[b].element
            /\ list'.elements[b].element = list.elements[a].element
            /\ \A s \in DOMAIN list.elements \ { a, b } :
                   list'.elements[s].element = list.elements[s].element
            /\ (a = b => list' = list)

C10_SwapKeepsOrder ==
    [][C10_SwapStep]_vars

\* two live elements that are not neighbours have changed slots
C10_Witness ==
    /\ last.op = "swap" /\ last.ok
    /\ Len(alist) = 3
    /\ TraversalEntries(list) = alist
    /\ alist[1].slot = last.other /\ alist[3].slot = last.index
    /\ alist[1].value # alist[3].value

\* the two elements of a two-element list have changed slots
C10_WitnessTwo ==
    /\ last.op = "swap" /\ last.ok
    /\ Len(alist) = 2
    /\ TraversalEntries(list) = alist
    /\ alist[1].slot = last.other /\ alist[2].slot = last.index
    /\ alist[1].value # alist[2].value

\* C11: linearize() on a list of n elements that inserts and deletes have
\* built leaves the traversal's sequence of values as it was and stores the
\* element at logical position k (1-indexed) in slot k, for every k in 1 .. n.
C11_LinearizeStep ==
    (last'.op = "linearize") =>
        \E before \in { TraversalValues(list) }, after \in { LINKED_LIST_TRAVERSE(list') } :
            /\ last'.ok
            /\ TraversalValues(list') = before
            /\ after = [k \in 1 .. list.used |-> k]

C11_LinearizePutsInOrder ==
    [][C11_LinearizeStep]_vars

\* Three elements, one of which the call has moved into the slot `free` named.
C11_Witness ==
    /\ last.op = "linearize" /\ last.ok
    /\ Len(alist) = 3
    /\ TraversalEntries(list) = alist
    /\ alist[1].value # alist[2].value
    /\ list.free <= 3

\* C12: when linearize() has returned successfully, is_linearized is true,
\* whatever it was before the call.
C12_LinearizedAfterLinearize ==
    (last.op = "linearize" /\ last.ok) => list.is_linearized

\* C13: in every reachable state and for every 0 <= i < used, the lookup by
\* logical position answers the slot and the value of the element at 0-based
\* position i of the forward traversal, on the O(1) path as on the walk.
C13_LogicalLookupIsTraversal ==
    (last.op = "get_logical") =>
        /\ last.index + 1 \in DOMAIN LINKED_LIST_TRAVERSE(list)
        /\ last.actual_index = LINKED_LIST_TRAVERSE(list)[last.index + 1]
        /\ last.value = TraversalValues(list)[last.index + 1]

\* C14: pop_front removes the first element of the traversal and pop_back
\* the last one; the elements that remain keep their order (so on a list of
\* two or more elements the two calls remove different elements).
C14_PopStep ==
    \E before \in { TraversalEntries(list) }, after \in { TraversalEntries(list') } :
        /\ (last'.op = "pop_front" /\ before # << >>) =>
               (last'.ok /\ after = Tail(before))
        /\ (last'.op = "pop_back" /\ before # << >>) =>
               (last'.ok /\ after = SubSeq(before, 1, Len(before) - 1))

C14_PopsRemoveHeadAndTail ==
    [][C14_PopStep]_vars

\* C15: a mutation that is passed index 0 (delete(0), a pop of an empty list,
\* swap(0, b), swap(a, 0)) fails and leaves the list as it was.
C15_EndIndexStep ==
    EndIndexPassed' => (~last'.ok /\ list' = list)

C15_EndIndexRejected ==
    [][C15_EndIndexStep]_vars

\* C16: insert_after(prev_index, value) and delete(index) with an index below
\* 0 or above capacity + 1 fail and leave the whole list (elements, used,
\* free, capacity, is_linearized) as it was.
C16_OutsideStep ==
    OutsidePassed' => (~last'.ok /\ list' = list)

C16_OutsideIndexRejected ==
    [][C16_OutsideStep]_vars

\* A rejected insertion above capacity + 1 on a list whose free ring is
\* exhausted, and a rejected deletion below 0 on a list of two elements.
C16_Witness ==
    /\ OutsidePassed /\ ~last.ok
    /\ last.op = "insert_after" /\ last.index = list.capacity + 2
    /\ ~free_elements_left(list)
    /\ list.used = 2

C16_WitnessDelete ==
    /\ OutsidePassed /\ ~last.ok
    /\ last.op = "delete" /\ last.index = -1
    /\ list.used = 2

\* C17: swap(a, b) with a or b outside 0 .. capacity + 1 fails and leaves the
\* list as it was, for every such pair, a = b included.
C17_SwapOutsideStep ==
    (last'.op = "swap") => (~last'.ok /\ list' = list)

C17_SwapOutsideRejected ==
    [][C17_SwapOutsideStep]_vars

\* C18: when the free ring is exhausted and the allocator fails to grow the
\* backing store, insert_after, push_front and push_back fail and leave the
\* list exactly as it was (capacity, used, free, is_linearized, elements, and
\* with them the traversal).
C18_FailedGrowthKeepsList ==
    ~free_elements_left(list) =>
        \A value \in Values :
            /\ \A prev_index \in Anchors(list) :
                   \E r \in { linked_list_insert_after(list, value, prev_index, IntZero, FALSE) } :
                       ~r.ok /\ r.list = list
            /\ \E r \in { linked_list_push_front(list, value, IntZero, FALSE) } :
                   ~r.ok /\ r.list = list
            /\ \E r \in { linked_list_push_back(list, value, IntZero, FALSE) } :
                   ~r.ok /\ r.list = list

\* An insertion has failed on a full list of two elements whose capacity is
\* not 0: the allocator has refused to grow it.
C18_Witness ==
    /\ last.op \in InsertOps /\ ~last.ok
    /\ ~free_elements_left(list)
    /\ list.capacity = 2 /\ list.used = 2
    /\ list.is_linearized

\* C20: in every state reached through create, insert_after, push_front,
\* push_back, delete, resize, swap and linearize, the slots that are not free
\* are slot 0 and the slots of the one next/prev cycle through slot 0, `free`
\* names a free slot and the free slots are those of the one cycle through
\* `free`, and the two cycles are disjoint and cover all slots.
C20_RingPartition ==
    RingPartition(list)

\* Insertions whose value is the number of the call, so that every pair
\* carries the time of its insertion.
OrderedInsert ==
    /\ ~hlast.aborted
    /\ hlast.calls < MaxCalls
    /\ \E key \in Keys, value \in { hlast.calls + 1 } :
        \E r \in { hash_table_insert(table, key, value) } :
            /\ r.table.buckets_capacity <= MaxBuckets
            /\ r.table.values.capacity <= MaxValuesCapacity
            /\ table' = r.table
            /\ amap' = IF amap[key] = NoValue
                       THEN [amap EXCEPT ![key] = value]
                       ELSE amap
            /\ hlast' = TableRecord("insert", key, value, r)
            /\ UNCHANGED lvars

SpecChain == InitHash /\ [][OrderedInsert]_vars

\* ---------------------------------------- allocation failure inside a rehash

InsertRehashFailing ==
    /\ ~hlast.aborted
    /\ \E key \in Keys, value \in TableValues :
        \E ok \in { hash_table_insert(table, key, value) } :
            /\ ok.ret /\ ok.table.buckets_capacity # table.buckets_capacity
            /\ \E r \in hash_table_insert_failing(table, ok) :
                   /\ table' = r.table
                   /\ hlast' = TableRecord("insert_failing", key, value, r)
                   /\ UNCHANGED amap
                   /\ UNCHANGED lvars

\* Insertions and deletions, then one insertion whose rehash cannot allocate.
NextAlloc ==
    \/ hlast.op # "insert_failing" /\ HashInsert
    \/ hlast.op # "insert_failing" /\ HashDelete
    \/ hlast.op # "insert_failing" /\ InsertRehashFailing

SpecAlloc == InitHash /\ [][NextAlloc]_vars

\* ------------------------------------------ the five-key hash table scenario

\* Five distinct keys, and hash functions that put them into one bucket, into
\* a bucket each, into three buckets and into the even buckets.
ScenarioKeys == 0 .. 4

ScenarioHashes ==
    { [k \in ScenarioKeys |-> 0], [k \in ScenarioKeys |-> k],
      [k \in ScenarioKeys |-> k % 3], [k \in ScenarioKeys |-> 2 * k] }

InitScenario ==
    /\ IdleList
    /\ \E key_hash_function \in ScenarioHashes :
           table = hash_table_create(key_hash_function, 3, 10)
    /\ amap = [k \in ScenarioKeys |-> NoValue]
    /\ hlast = NoTableCall

\* Insertion of a key of the scenario that has not been inserted yet.
ScenarioInsert ==
    \E key \in ScenarioKeys, value \in TableValues :
        /\ amap[key] = NoValue
        /\ \E r \in { hash_table_insert(table, key, value) } :
               /\ table' = r.table
               /\ amap' = [amap EXCEPT ![key] = value]
               /\ hlast' = TableRecord("insert", key, value, r)
               /\ UNCHANGED lvars

SpecScenario == InitScenario /\ [][ScenarioInsert]_vars

\* ------------------------------------------------------- hash table claims
\* What lookup answers for a key the abstract map holds with value v, and for
\* a key it does not hold.
SomeValue(v) == [found |-> TRUE, value |-> v]
None == [found |-> FALSE, value |-> 0]

AbsLookup(m, key) == IF m[key] = NoValue THEN None ELSE SomeValue(m[key])

\* The pairs of the table's list, in traversal order.
TablePairs(t) == TraversalValues(t.values)

\* C3: across insert, delete and insertion-triggered rehash, lookup(k) returns
\* v for every key k inserted with value v and not deleted since, also after
\* other keys of the same bucket were deleted, and returns none for a key that
\* is not in the table.
C3_LookupAgreesWithMap ==
    ~hlast.aborted =>
        \A k \in Keys : hash_table_lookup(table, k) = AbsLookup(amap, k)

\* C4: insert(k, v') for a key k that is in the table (inserted and not deleted
\* since) returns false and leaves the whole table as it was.
C4_InsertStep ==
    (hlast'.op = "insert" /\ amap[hlast'.key] # NoValue) =>
        /\ hlast'.ret = FALSE
        /\ table' = table

C4_InsertExistingKeepsTable ==
    [][C4_InsertStep]_vars

\* (so the table never holds two pairs with equal keys)
C4_NoEqualKeys ==
    \A i, j \in 1 .. Len(TablePairs(table)) :
        i # j => TablePairs(table)[i].key # TablePairs(table)[j].key

\* C5: delete(key) returns true exactly when the key is in the table; after it
\* returned true contains(key) is false and lookup(key) is none, every other
\* key keeps its value, and buckets_capacity and the capacity of the list of
\* pairs are as before.
C5_DeleteStep ==
    (hlast'.op = "delete" /\ ~hlast'.aborted) =>
        /\ hlast'.ret = (amap[hlast'.key] # NoValue)
        /\ hlast'.ret =>
               /\ ~hash_table_contains(table', hlast'.key)
               /\ hash_table_lookup(table', hlast'.key) = None
               /\ \A k \in Keys \ { hlast'.key } :
                      hash_table_lookup(table', k) = hash_table_lookup(table, k)
               /\ table'.buckets_capacity = table.buckets_capacity
               /\ table'.values.capacity = table.values.capacity

C5_DeleteRemovesKeyOnly ==
    [][C5_DeleteStep]_vars

\* C6: an insertion-triggered rehash keeps the table's contents: every key
\* other than the inserted one is looked up with the same result before and
\* after, the inserted key with its value, and the rebuilt list of pairs holds
\* one pair for every key that is looked up with success.
C6_RehashStep ==
    (hlast'.op = "insert" /\ ~hlast'.aborted /\ hlast'.ret
        /\ table'.buckets_capacity # table.buckets_capacity) =>
        /\ \A k \in Keys \ { hlast'.key } :
               hash_table_lookup(table', k) = hash_table_lookup(table, k)
        /\ hash_table_lookup(table', hlast'.key) = SomeValue(hlast'.value)
        /\ C4_NoEqualKeys'
        /\ { TablePairs(table')[i].key : i \in 1 .. Len(TablePairs(table')) } =
               { k \in Keys : hash_table_lookup(table', k).found }

C6_RehashKeepsPairs ==
    [][C6_RehashStep]_vars

\* C7: in the table as created and after every hash_table_insert that returns,
\* buckets_used / buckets_capacity is below 0.5, also when the re-insertion
\* done by a rehash reaches the threshold again.
C7_LoadFactorBelowHalf ==
    ~hlast.aborted =>
        table.buckets_used * MAX_LOAD_DIVISOR < table.buckets_capacity

\* one insertion has doubled buckets_capacity twice
C7_Witness ==
    /\ hlast.op = "insert" /\ hlast.ret /\ ~hlast.aborted
    /\ hlast.capacity_before * TABLE_GROW * TABLE_GROW = table.buckets_capacity

\* C19: in a table created with bucket_capacity 3 and value_list_size 10, the
\* insertion of a new key doubles the bucket array exactly when the key takes
\* an empty bucket and buckets_used / buckets_capacity reaches 0.5 with it
\* (for 4 buckets: with the second bucket used); the bucket array has 4, 8 or
\* 16 buckets once the five keys are in, depending on the hash function, and
\* after every insertion each key inserted is looked up with its value.
C19_ScenarioStep ==
    \E bucket \in { table.hash_table[hash_table_get_position(table, hlast'.key)] } :
        /\ hlast'.ret /\ ~hlast'.aborted
        /\ (bucket.size = 0 /\ (table.buckets_used + 1) * MAX_LOAD_DIVISOR >= table.buckets_capacity)
               => table'.buckets_capacity = TABLE_GROW * table.buckets_capacity
        /\ ~(bucket.size = 0 /\ (table.buckets_used + 1) * MAX_LOAD_DIVISOR >= table.buckets_capacity)
               => table'.buckets_capacity = table.buckets_capacity
        /\ table.buckets_capacity >= 4
        /\ table'.buckets_capacity \in { 4, 8, 16 }
        /\ \A k \in ScenarioKeys : hash_table_lookup(table', k) = AbsLookup(amap', k)

C19_ScenarioRehashes ==
    [][C19_ScenarioStep]_vars

\* The five keys are in and there have been two rehashes.
C19_Witness ==
    /\ \A k \in ScenarioKeys : amap[k] # NoValue
    /\ table.buckets_capacity = 16

\* C19 as stated: the five insertions cause exactly one rehash, whatever the
\* hash function, and the five keys are looked up with their values.
C19_ExactlyOneRehash ==
    (\A k \in ScenarioKeys : amap[k] # NoValue) =>
        /\ table.buckets_capacity = 8
        /\ \A k \in ScenarioKeys : hash_table_lookup(table, k) = AbsLookup(amap, k)

\* C21: in every state insert, delete and rehash reach, for every bucket of
\* size >= 1 value_index is the index of a live slot of the pair list, and the
\* size slots from value_index on along next_index hold exactly the pairs of
\* the table whose key hashes to the bucket, each once, also after the pair
\* at value_index has been deleted.
C21_ChainInvariant ==
    ~hlast.aborted =>
        \A position \in DOMAIN table.hash_table :
            table.hash_table[position].size >= 1 =>
                \E chain \in { bucket_chain(table, position) } :
                    /\ \A i \in 1 .. Len(chain) :
                           /\ chain[i] # linked_list_end_index
                           /\ ~table.values.elements[chain[i]].is_free
                    /\ \A i, j \in 1 .. Len(chain) : i # j => chain[i] # chain[j]
                    /\ { ChainKeys(table, chain)[i] : i \in 1 .. Len(chain) }
                         = { k \in Keys : /\ amap[k] # NoValue
                                          /\ hash_table_get_position(table, k) = position }
                    /\ \A i \in 1 .. Len(chain) :
                           table.values.elements[chain[i]].element.value
                               = amap[ChainKeys(table, chain)[i]]

\* C22: in every state insert, delete and rehash reach, buckets_used is the
\* number of buckets whose size is >= 1 (it goes down when a delete empties a
\* bucket and is not counted twice when the bucket is filled again).
C22_BucketsUsedCounts ==
    ~hlast.aborted =>
        table.buckets_used =
            Cardinality({ position \in DOMAIN table.hash_table :
                            table.hash_table[position].size >= 1 })

\* C23: in every reachable state of the list in which is_linearized is true,
\* the element at 0-based position i of the traversal is stored in slot
\* head_index + i, for every 0 <= i < used.
C23_LinearizedIsSound ==
    list.is_linearized =>
        \E visited \in { LINKED_LIST_TRAVERSE(list) } :
            \A i \in 0 .. Len(visited) - 1 :
                visited[i + 1] = linked_list_head_index(list) + i

\* The slot is that of an element of the list that is neither the first nor
\* the last of the traversal.
Interior(l, slot) ==
    \E visited \in { LINKED_LIST_TRAVERSE(l) } :
        \E i \in 2 .. Len(visited) - 1 : visited[i] = slot

\* C24: every delete of an interior element (neither the first nor the last
\* of the traversal) leaves is_linearized false, as in the list of three
\* push_back calls on a list of capacity 2 whose middle element is deleted.
C24_DeleteStep ==
    (last'.op = "delete" /\ last'.ok /\ Interior(list, last'.index)) =>
        ~list'.is_linearized

C24_InteriorDeleteClearsFlag ==
    [][C24_DeleteStep]_vars

\* C25: a delete that removes the first or the last element of the traversal
\* leaves is_linearized as it was.
C25_DeleteStep ==
    (/\ last'.op = "delete" /\ last'.ok
     /\ last'.index # linked_list_end_index
     /\ last'.index \in { linked_list_head_index(list), linked_list_tail_index(list) }) =>
        list'.is_linearized = list.is_linearized

C25_EndDeleteKeepsFlag ==
    [][C25_DeleteStep]_vars

\* The list on which linked_list_insert_after chooses the place: the list
\* before the call, grown first if its free ring is exhausted.
GrownFirst(l) ==
    IF free_elements_left(l)
    THEN l
    ELSE linked_list_resize(l, l.capacity * LIST_GROW, IntZero, TRUE).list

\* What C26 says of a successful insert_after(prev_index, v) that found the
\* list `chosen_on` when it chose the place.
PlacementPolicy(chosen_on) ==
    \E prev_index \in { last'.index }, place \in { last'.actual_index } :
        /\ IF /\ prev_index + 1 \in DOMAIN chosen_on.elements
              /\ chosen_on.elements[prev_index + 1].is_free
           THEN place = prev_index + 1 /\ list'.is_linearized = list.is_linearized
           ELSE place = list.free /\ ~list'.is_linearized
        /\ place \in FreeRingSlots(chosen_on)
        /\ place \notin FreeRingSlots(list')
        /\ ~list'.elements[place].is_free
        /\ list'.elements[list'.free].is_free

\* C26: insert_after(prev_index, v) stores the new element at prev_index + 1
\* and leaves is_linearized alone if that slot exists and is free once the
\* list has grown where it had to; otherwise it stores it at the slot `free`
\* named before the call and clears is_linearized.  The slot chosen leaves
\* the free ring and `free` names a free slot afterwards.
C26_PlacementStep ==
    (last'.op = "insert_after" /\ last'.ok) => PlacementPolicy(GrownFirst(list))

C26_PlacementPolicy ==
    [][C26_PlacementStep]_vars

\* An insertion after the element in slot capacity + 1 of an exhausted list:
\* slot prev_index + 1 exists only once the list has grown.
C26_Witness ==
    /\ last.op = "insert_after" /\ last.ok
    /\ last.index = last.capacity_before + 1
    /\ last.actual_index = last.index + 1
    /\ list.capacity > last.capacity_before

\* C26 with "slot prev_index + 1 exists and is free" read on the list as it
\* is before the call.
C26_PlacementBeforeStep ==
    (last'.op = "insert_after" /\ last'.ok) => PlacementPolicy(list)

C26_PlacementBeforeCall ==
    [][C26_PlacementBeforeStep]_vars

\* C27: the walk of a bucket's chain from value_index visits the bucket's
\* pairs in the order of their insertion, oldest first, for chains of any
\* length (under SpecChain the value of a pair is the time of its insertion).
C27_ChainInInsertionOrder ==
    \A position \in DOMAIN table.hash_table :
        \E chain \in { bucket_chain(table, position) } :
            \A i, j \in 1 .. Len(chain) :
                i < j => table.values.elements[chain[i]].element.value
                           < table.values.elements[chain[j]].element.value

\* C28: delete(index) on a slot that is free fails and leaves the list as it
\* was: used is not decremented and the free ring is not relinked.
C28_DeleteFreeStep ==
    (last'.op = "delete_free") => (~last'.ok /\ list' = list)

C28_DeleteFreeRejected ==
    [][C28_DeleteFreeStep]_vars

\* C29: no failure of a sub-operation is dropped: when hash_table_create fails
\* inside the rehash that an insertion triggers, the insertion reports a
\* failure to its caller and the table it was called on is left unchanged.
C29_FailingStep ==
    (hlast'.op = "insert_failing") =>
        (~hlast'.ret /\ ~hlast'.aborted /\ table' = table)

C29_FailureReported ==
    [][C29_FailingStep]_vars

\* C30: insertion never fails for lack of space: in every state reached from
\* a list created with any capacity >= 0, insert_after at the end slot or at a
\* live slot succeeds whenever the allocator does not fail, used <= capacity
\* and the free ring has exactly capacity + 1 - used slots.
C30_InsertionNeverFails ==
    /\ \A prev_index \in Anchors(list), value \in Values :
           linked_list_insert_after(list, value, prev_index, IntZero, TRUE).ok
    /\ list.used <= list.capacity
    /\ Cardinality(FreeRingSlots(list)) = list.capacity + 1 - list.used

====
